---- MODULE Spec2Model ----
(***************************************************************************)
(* Order lifecycle of the KDS v5 server (src/server.js): the orders table, *)
(* the four mutating order handlers, the refresh:orders socket handler and *)
(* the events they emit.  Every `await` of a handler is a point where      *)
(* other handlers' statements may run, so each handler is split at the     *)
(* statements it sends to the store.  The synchronous code before a        *)
(* statement is issued (validation, building the parameters) and the       *)
(* synchronous code after the last statement's result (io.emit, res.json)  *)
(* touch only the handler's own locals and the event log, and are taken    *)
(* together with the statement they precede or follow.                     *)
(***************************************************************************)
EXTENDS Integers, Sequences, FiniteSets, TLC

VARIABLES
  orders,   \* the rows of table `orders`; row i has id i (AUTOINCREMENT, no DELETE)
  clock,    \* the last value CURRENT_TIMESTAMP returned (one-second resolution)
  req,      \* per request: its inputs, its position, its locals and its response
  events,   \* the io.emit broadcasts, in emission order
  inbox,    \* per socket: the socket.emit messages addressed to it alone
  up        \* FALSE once the process has died of an unhandled rejection

vars == <<orders, clock, req, events, inbox, up>>

\* ---------------------------------------------------------------- bounds
NReq == 3
MaxId == 2
Reqs == 1..NReq

\* ---------------------------------------------------------------- inputs
Tables == {"T1", "T2"}
Sockets == {"s1", "s2"}
Statuses == {"placed", "preparing", "ready", "billed", "archived"}
StatusInputs == Statuses \cup {"bogus"}
IdInputs == 1..MaxId
\* An absent body field is the value `undefined`; no text of the model equals it.
undefined == "<undefined>"

\* A body value `items`: an array of line items, or anything else (absent,
\* null, a string, an object), which the handlers reject alike.
JsonArray(e) == [isArray |-> TRUE, elems |-> e]
NotArray == [isArray |-> FALSE, elems |-> <<>>]

Body(table_no, items, special_requests) ==
  [table_no |-> table_no, items |-> items, special_requests |-> special_requests]

\* Bodies of POST /api/orders: for every table an empty order with no
\* special_requests field and a one-item order with a text, an order with the
\* empty text, and the bodies that miss table_no or a proper items.
PlaceBodies ==
  {Body(t, JsonArray(<<>>), undefined) : t \in Tables}
    \cup {Body(t, JsonArray(<<"A">>), "x") : t \in Tables}
    \cup {Body("T1", JsonArray(<<"A">>), ""),
          Body("", JsonArray(<<"A">>), "x"), Body("T1", NotArray, undefined)}

\* Bodies of POST /api/orders/:table_no/add-items (table_no is the path's):
\* for every table one item with a text and another item without the field,
\* two items with the empty text, and the bodies whose items is empty or no
\* array.
AddBodies ==
  {Body(t, JsonArray(<<"B">>), "y") : t \in Tables}
    \cup {Body(t, JsonArray(<<"C">>), undefined) : t \in Tables}
    \cup {Body("T1", JsonArray(<<"C", "B">>), ""),
          Body("T1", JsonArray(<<>>), "y"), Body("T1", NotArray, undefined)}

\* JavaScript truthiness of a text or absent value, and `v || ''`.
Truthy(v) == v # undefined /\ v # ""
\* Faulty variant: the value without the `|| ''` default.
OrEmpty_Keeps(v) == v

OrEmpty(v) == IF Truthy(v) THEN v ELSE ""

\* ---------------------------------------------------------------- JSON text
\* JSON text is a sequence of tokens: "[", the elements' texts separated by
\* ",", and "]".
RECURSIVE Join(_)
Join(a) ==
  IF a = <<>> THEN <<>>
  ELSE IF Len(a) = 1 THEN <<a[1]>>
  ELSE <<a[1], ",">> \o Join(Tail(a))

JSON_stringify(a) == <<"[">> \o Join(a) \o <<"]">>

JSON_parse(t) ==
  LET inner == SubSeq(t, 2, Len(t) - 1)
  IN  [i \in 1..((Len(inner) + 1) \div 2) |-> inner[2 * i - 1]]

\* `items_json || '[]'`
ItemsJsonOrDefault(t) == IF t = <<>> THEN JSON_stringify(<<>>) ELSE t

\* ---------------------------------------------------------------- the store
Ids == 1..Len(orders)

Row(id, table_no, items_json, special_requests, status, created_at) ==
  [id |-> id, table_no |-> table_no, items_json |-> items_json,
   special_requests |-> special_requests, status |-> status,
   created_at |-> created_at, archived |-> 0]

\* INSERT INTO orders (table_no, items_json, special_requests, status)
InsertOrder(table_no, items_json, special_requests, now) ==
  Append(orders,
         Row(Len(orders) + 1, table_no, items_json, special_requests, "placed", now))

\* SELECT * FROM orders WHERE id = ?  -- the row, or no row (undefined)
SelectById(id) == IF id \in Ids THEN <<orders[id]>> ELSE <<>>

\* Faulty variant: the statement without `AND archived = 0`.
ActiveOfTable_IgnoresArchived(table_no) ==
  {i \in Ids : orders[i].table_no = table_no}

ActiveOfTable(table_no) ==
  {i \in Ids : orders[i].table_no = table_no /\ orders[i].archived = 0}

\* ... WHERE table_no = ? AND archived = 0 ORDER BY created_at DESC LIMIT 1:
\* the rows the statement may return.  Rows with equal created_at are in no
\* defined order, so any of the newest may come first.
SelectLatestActive(table_no) ==
  {i \in ActiveOfTable(table_no) :
     \A j \in ActiveOfTable(table_no) : orders[j].created_at <= orders[i].created_at}

\* UPDATE orders SET items_json = ?, special_requests = ?, status = ? WHERE id = ?
UpdateItems(id, items_json, special_requests, status) ==
  [i \in Ids |->
     IF i = id
     THEN [orders[i] EXCEPT !.items_json = items_json,
                            !.special_requests = special_requests,
                            !.status = status]
     ELSE orders[i]]

\* Faulty variant: the statement with `AND archived = 0`, which leaves archived rows alone.
UpdateStatus_SkipsArchived(id, status) ==
  [i \in Ids |->
     IF i = id /\ orders[i].archived = 0
     THEN [orders[i] EXCEPT !.status = status,
                            !.archived = IF status = "archived" THEN 1 ELSE @]
     ELSE orders[i]]

\* Faulty variant: the statement without the archived assignment.
UpdateStatus_NeverArchives(id, status) ==
  [i \in Ids |->
     IF i = id THEN [orders[i] EXCEPT !.status = status] ELSE orders[i]]

\* Faulty variant: `archived = (? = "archived")`, which clears the flag on other statuses.
UpdateStatus_Reassigns(id, status) ==
  [i \in Ids |->
     IF i = id
     THEN [orders[i] EXCEPT !.status = status,
                            !.archived = IF status = "archived" THEN 1 ELSE 0]
     ELSE orders[i]]

\* Faulty variant: the CASE also archives on "billed", as the bill handler does.
UpdateStatus_ArchivesBilled(id, status) ==
  [i \in Ids |->
     IF i = id
     THEN [orders[i] EXCEPT !.status = status,
                            !.archived = IF status \in {"archived", "billed"} THEN 1 ELSE @]
     ELSE orders[i]]

\* UPDATE orders SET status = ?, archived = (CASE WHEN ? = "archived" THEN 1
\* ELSE archived END) WHERE id = ?
UpdateStatus(id, status) ==
  [i \in Ids |->
     IF i = id
     THEN [orders[i] EXCEPT !.status = status,
                            !.archived = IF status = "archived" THEN 1 ELSE @]
     ELSE orders[i]]

\* Faulty variant: the statement without `WHERE id = ?`.
UpdateBill_AllRows(id) ==
  [i \in Ids |-> [orders[i] EXCEPT !.status = "billed", !.archived = 1]]

\* UPDATE orders SET status = 'billed', archived = 1 WHERE id = ?
UpdateBill(id) ==
  [i \in Ids |->
     IF i = id
     THEN [orders[i] EXCEPT !.status = "billed", !.archived = 1]
     ELSE orders[i]]

\* Faulty variant: the statement without `WHERE archived = 0`.
SelectActive_IncludesArchived ==
  LET n == Len(orders)
  IN  {s \in [1..n -> Ids] :
         /\ \A i, j \in 1..n : i # j => s[i] # s[j]
         /\ \A i, j \in 1..n : i < j => orders[s[i]].created_at >= orders[s[j]].created_at}

\* SELECT * FROM orders WHERE archived = 0 ORDER BY created_at DESC: every
\* order of the active rows that is descending in created_at.
SelectActive ==
  LET A == {i \in Ids : orders[i].archived = 0}
      n == Cardinality(A)
  IN  {s \in [1..n -> A] :
         /\ \A i, j \in 1..n : i # j => s[i] # s[j]
         /\ \A i, j \in 1..n : i < j => orders[s[i]].created_at >= orders[s[j]].created_at}

\* The orders of a set of rows that are descending in created_at (rows with
\* equal created_at in either order).
OrderByCreatedAtDesc(A) ==
  LET n == Cardinality(A)
  IN  {s \in [1..n -> A] :
         /\ \A i, j \in 1..n : i # j => s[i] # s[j]
         /\ \A i, j \in 1..n : i < j => orders[s[i]].created_at >= orders[s[j]].created_at}

\* Faulty variant: the statement without `AND archived = 0`.
SelectActiveByStatus_IgnoresArchived(status) ==
  OrderByCreatedAtDesc({i \in Ids : orders[i].status = status})

\* SELECT * FROM orders WHERE status = ? AND archived = 0 ORDER BY created_at DESC
SelectActiveByStatus(status) ==
  OrderByCreatedAtDesc({i \in Ids : orders[i].status = status /\ orders[i].archived = 0})

\* The items table.  Its writers (POST /api/items, the CSV upload) are not part
\* of the order lifecycle, so it stays as the schema bootstrap leaves it.
ItemRows == <<>>

\* SELECT * FROM items ORDER BY id DESC
SelectItems == [i \in 1..Len(ItemRows) |-> ItemRows[Len(ItemRows) + 1 - i]]

\* ---------------------------------------------------------------- requests
NoRow == <<>>

Idle ==
  [kind |-> "none", pc |-> "idle", table_no |-> "", items |-> NotArray,
   special_requests |-> "", id |-> 0, status |-> "", socket |-> "",
   existing |-> NoRow, lastID |-> 0, res |-> 0, body |-> <<>>]

\* A request is the next to arrive when every earlier one has arrived.
Arrives(r) ==
  /\ up
  /\ req[r].pc = "idle"
  /\ \A q \in 1..(r - 1) : req[q].pc # "idle"

\* {...row, items: ...}
WithItems(row, items) ==
  [id |-> row.id, table_no |-> row.table_no, items_json |-> row.items_json,
   special_requests |-> row.special_requests, status |-> row.status,
   created_at |-> row.created_at, archived |-> row.archived, items |-> items]

Event(type, payload, r) == [type |-> type, payload |-> payload, by |-> r]

Init ==
  /\ orders = <<>>
  /\ clock = 0
  /\ req = [r \in Reqs |-> Idle]
  /\ events = <<>>
  /\ inbox = [s \in Sockets |-> <<>>]
  /\ up = TRUE

Respond(r, code, body) == [req EXCEPT ![r].pc = "done", ![r].res = code, ![r].body = body]

\* ---- validation
\* Faulty variant: the check without `items.length===0`.
AddItemsRejects_AllowsEmpty(items) == ~items.isArray

\* !table_no || !items || !Array.isArray(items)
PlaceOrderRejects(table_no, items) == ~Truthy(table_no) \/ ~items.isArray

\* !items || !Array.isArray(items) || items.length===0
AddItemsRejects(items) == ~items.isArray \/ Len(items.elems) = 0

\* !['placed','preparing','ready','billed','archived'].includes(status)
SetStatusRejects(status) == status \notin Statuses

\* ---- POST /api/orders
\* Validation, then the INSERT.
PlaceOrder(r, b) ==
  /\ Arrives(r)
  /\ LET table_no == b.table_no
         items == b.items
         special_requests == b.special_requests
         q == [req[r] EXCEPT !.kind = "place", !.table_no = table_no, !.items = items,
                             !.special_requests = special_requests]
     IN  IF PlaceOrderRejects(table_no, items)
         THEN /\ req' = [req EXCEPT ![r] = [q EXCEPT !.pc = "done", !.res = 400,
                                                     !.body = <<"table_no and items[] required">>]]
              /\ UNCHANGED <<orders, clock>>
         ELSE \E now \in {clock, clock + 1} :
                /\ orders' = InsertOrder(table_no, JSON_stringify(items.elems),
                                         OrEmpty(special_requests), now)
                /\ clock' = now
                /\ req' = [req EXCEPT ![r] = [q EXCEPT !.pc = "select",
                                                       !.lastID = Len(orders) + 1]]
  /\ UNCHANGED <<events, inbox, up>>

\* The SELECT of the new row, `newOrder.items = items`, the broadcast, the response.
PlaceOrderSelect(r) ==
  /\ up
  /\ req[r].kind = "place" /\ req[r].pc = "select"
  /\ LET newOrder == WithItems(SelectById(req[r].lastID)[1], req[r].items.elems)
     IN  /\ events' = Append(events, Event("order:placed", newOrder, r))
         /\ req' = Respond(r, 200, <<req[r].lastID>>)
  /\ UNCHANGED <<orders, clock, inbox, up>>

\* ---- POST /api/orders/:table_no/add-items
\* Validation, then the SELECT of the table's latest active order.
AddItems(r, b) ==
  /\ Arrives(r)
  /\ LET table_no == b.table_no
         items == b.items
         special_requests == b.special_requests
         q == [req[r] EXCEPT !.kind = "add", !.table_no = table_no, !.items = items,
                             !.special_requests = special_requests]
     IN  IF AddItemsRejects(items)
         THEN req' = [req EXCEPT ![r] = [q EXCEPT !.pc = "done", !.res = 400,
                                                  !.body = <<"items[] required">>]]
         ELSE IF SelectLatestActive(table_no) = {}
         THEN req' = [req EXCEPT ![r] = [q EXCEPT !.pc = "done", !.res = 404,
                                                  !.body = <<"no active order for this table">>]]
         ELSE \E i \in SelectLatestActive(table_no) :
                req' = [req EXCEPT ![r] = [q EXCEPT !.pc = "update",
                                                    !.existing = <<orders[i]>>]]
  /\ UNCHANGED <<orders, clock, events, inbox, up>>

\* Faulty variant: items.concat(existingItems).
NewItems_Prepends(existing, items) ==
  items \o JSON_parse(ItemsJsonOrDefault(existing.items_json))

\* Faulty variant: the new items are appended to what the store holds at the write.
NewItems_FromStore(existing, items) ==
  JSON_parse(ItemsJsonOrDefault(orders[existing.id].items_json)) \o items

\* existingItems.concat(items)
NewItems(existing, items) ==
  JSON_parse(ItemsJsonOrDefault(existing.items_json)) \o items

\* (existing.special_requests || '') + (special_requests ? ('; ' + special_requests) : '')
UpdatedRequests(existing, special_requests) ==
  OrEmpty(existing.special_requests)
    \o (IF Truthy(special_requests) THEN "; " \o special_requests ELSE "")

\* The UPDATE built from the row read earlier.
AddItemsUpdate(r) ==
  /\ up
  /\ req[r].kind = "add" /\ req[r].pc = "update"
  /\ LET existing == req[r].existing[1]
     IN  orders' = UpdateItems(existing.id,
                               JSON_stringify(NewItems(existing, req[r].items.elems)),
                               UpdatedRequests(existing, req[r].special_requests),
                               "placed")
  /\ req' = [req EXCEPT ![r].pc = "select"]
  /\ UNCHANGED <<clock, events, inbox, up>>

\* The SELECT of the updated row, the broadcast, the response.
AddItemsSelect(r) ==
  /\ up
  /\ req[r].kind = "add" /\ req[r].pc = "select"
  /\ LET row == SelectById(req[r].existing[1].id)[1]
         updatedOrder == WithItems(row, JSON_parse(ItemsJsonOrDefault(row.items_json)))
     IN  /\ events' = Append(events, Event("order:items-added", updatedOrder, r))
         /\ req' = Respond(r, 200, <<updatedOrder>>)
  /\ UNCHANGED <<orders, clock, inbox, up>>

\* `updated.items = ...` on the result of the SELECT by id: with a row, the
\* broadcast and the response; with no row `updated` is undefined and the
\* assignment throws inside the async handler.  Nothing catches it: nothing is
\* emitted, no response is sent, and the unhandled rejection either is only
\* reported or ends the process, as the runtime decides.
EmitUpdated(r, type) ==
  LET updated == SelectById(req[r].id)
  IN  IF updated = NoRow
      THEN /\ req' = [req EXCEPT ![r].pc = "threw"]
           /\ up' \in BOOLEAN
           /\ UNCHANGED events
      ELSE /\ events' = Append(events,
                 Event(type,
                       WithItems(updated[1],
                                 JSON_parse(ItemsJsonOrDefault(updated[1].items_json))),
                       r))
           /\ req' = Respond(r, 200, <<>>)
           /\ UNCHANGED up

\* ---- POST /api/orders/:id/status
\* Validation, then the UPDATE.
SetStatus(r, id, status) ==
  /\ Arrives(r)
  /\ LET q == [req[r] EXCEPT !.kind = "status", !.id = id, !.status = status]
     IN  IF SetStatusRejects(status)
         THEN /\ req' = [req EXCEPT ![r] = [q EXCEPT !.pc = "done", !.res = 400,
                                                     !.body = <<"invalid status">>]]
              /\ UNCHANGED orders
         ELSE /\ orders' = UpdateStatus(id, status)
              /\ req' = [req EXCEPT ![r] = [q EXCEPT !.pc = "select"]]
  /\ UNCHANGED <<clock, events, inbox, up>>

SetStatusSelect(r) ==
  /\ up
  /\ req[r].kind = "status" /\ req[r].pc = "select"
  /\ EmitUpdated(r, "order:status-changed")
  /\ UNCHANGED <<orders, clock, inbox>>

\* ---- POST /api/orders/:id/bill
Bill(r, id) ==
  /\ Arrives(r)
  /\ orders' = UpdateBill(id)
  /\ req' = [req EXCEPT ![r].kind = "bill", ![r].id = id, ![r].pc = "select"]
  /\ UNCHANGED <<clock, events, inbox, up>>

BillSelect(r) ==
  /\ up
  /\ req[r].kind = "bill" /\ req[r].pc = "select"
  /\ EmitUpdated(r, "order:billed")
  /\ UNCHANGED <<orders, clock, inbox>>

\* ---- socket.on('refresh:orders')
RefreshOrders(r, socket) ==
  /\ Arrives(r)
  /\ \E s \in SelectActive :
       LET rows == [i \in DOMAIN s |->
                      WithItems(orders[s[i]],
                                JSON_parse(ItemsJsonOrDefault(orders[s[i]].items_json)))]
       IN  inbox' = [inbox EXCEPT ![socket] =
                       Append(@, [type |-> "orders:refresh", payload |-> rows])]
  /\ req' = [req EXCEPT ![r].kind = "refresh", ![r].socket = socket, ![r].pc = "done"]
  /\ UNCHANGED <<orders, clock, events, up>>

\* ---- GET /api/orders
\* Faulty variant: the rows are sent as read, items_json unparsed.
Expand_Unparsed(row) == WithItems(row, row.items_json)

\* r => ({...r, items: JSON.parse(r.items_json || '[]')})
Expand(row) == WithItems(row, JSON_parse(ItemsJsonOrDefault(row.items_json)))

\* Values of ?status=: absent, empty, three of the statuses, an unknown one.
FilterInputs == {undefined, "", "placed", "billed", "archived", "bogus"}

\* The SELECT with or without the status filter, the map, the response.
ListOrders(r, status) ==
  /\ Arrives(r)
  /\ \E s \in (IF Truthy(status) THEN SelectActiveByStatus(status) ELSE SelectActive) :
       LET rows == [i \in DOMAIN s |-> Expand(orders[s[i]])]
       IN  req' = [req EXCEPT ![r].kind = "list", ![r].status = status,
                              ![r].pc = "done", ![r].res = 200, ![r].body = rows]
  /\ UNCHANGED <<orders, clock, events, inbox, up>>

\* ---- socket.on('refresh:items')
RefreshItems(r, socket) ==
  /\ Arrives(r)
  /\ inbox' = [inbox EXCEPT ![socket] =
                 Append(@, [type |-> "items:refresh", payload |-> SelectItems])]
  /\ req' = [req EXCEPT ![r].kind = "refresh-items", ![r].socket = socket, ![r].pc = "done"]
  /\ UNCHANGED <<orders, clock, events, up>>

Next ==
  \/ \E r \in Reqs, b \in PlaceBodies : PlaceOrder(r, b)
  \/ \E r \in Reqs : PlaceOrderSelect(r)
  \/ \E r \in Reqs, b \in AddBodies : AddItems(r, b)
  \/ \E r \in Reqs : AddItemsUpdate(r)
  \/ \E r \in Reqs : AddItemsSelect(r)
  \/ \E r \in Reqs, id \in IdInputs, status \in StatusInputs : SetStatus(r, id, status)
  \/ \E r \in Reqs : SetStatusSelect(r)
  \/ \E r \in Reqs, id \in IdInputs : Bill(r, id)
  \/ \E r \in Reqs : BillSelect(r)
  \/ \E r \in Reqs, socket \in Sockets : RefreshOrders(r, socket)

Spec == Init /\ [][Next]_vars

\* The same with the read-only requests: the order list and refresh:items.
NextWithReads ==
  \/ Next
  \/ \E r \in Reqs, status \in FilterInputs : ListOrders(r, status)
  \/ \E r \in Reqs, socket \in Sockets : RefreshItems(r, socket)

SpecWithReads == Init /\ [][NextWithReads]_vars

\* ================================================================ claims
\* Steps of a request, as seen across one transition.
ArrivesAs(r, kind) == req[r].pc = "idle" /\ req'[r].kind = kind
Answered(r, code) == req[r].pc = "done" /\ req[r].res = code
EventsBy(r) == {k \in DOMAIN events : events[k].by = r}

C2_ArchivedIrreversible ==
  [][\A i \in Ids :
       orders[i].archived = 1 => i \in DOMAIN orders' /\ orders'[i].archived = 1]_vars

\* An archived order that has been written again since: its status is no
\* longer billed or archived.
C2_Witness ==
  \E i \in Ids :
    orders[i].archived = 1 /\ orders[i].status \in {"placed", "preparing", "ready"}

NoActiveOrder(table_no) ==
  \A i \in Ids : orders[i].table_no = table_no => orders[i].archived = 1

\* C4: an add-items request with a non-empty item sequence is answered 404
\* exactly when, at its read, the table has no order with archived = 0 (so also
\* after the table's only order was billed); a 404 changes no order and emits
\* no event.
C4_NotFoundIffNoActiveOrder ==
  [][\A r \in Reqs :
       (ArrivesAs(r, "add") /\ req'[r].items.isArray /\ req'[r].items.elems # <<>>) =>
         /\ (req'[r].pc = "done" /\ req'[r].res = 404) <=> NoActiveOrder(req'[r].table_no)
         /\ req'[r].res = 404 =>
              orders' = orders /\ events' = events /\ inbox' = inbox
         /\ req'[r].res # 404 => req'[r].pc = "update" /\ req'[r].res = 0]_vars

\* A table's only order was billed by a bill request, and a later add-items
\* for that table was answered 404.
C4_Witness ==
  \E r, b \in Reqs :
    /\ req[r].kind = "add" /\ Answered(r, 404)
    /\ req[b].kind = "bill" /\ Answered(b, 200) /\ b < r
    /\ orders[req[b].id].table_no = req[r].table_no
    /\ orders[req[b].id].status = "billed"
    /\ \A i \in Ids : orders[i].table_no = req[r].table_no => i = req[b].id
    /\ EventsBy(r) = {}

\* ---- C5
NewestActiveId(table_no) ==
  CHOOSE i \in Ids :
    /\ orders[i].table_no = table_no /\ orders[i].archived = 0
    /\ \A j \in Ids : (orders[j].table_no = table_no /\ orders[j].archived = 0) => j <= i

AddReads(r) == ArrivesAs(r, "add") /\ req'[r].pc = "update"
AddWrites(r) == req[r].kind = "add" /\ req[r].pc = "update" /\ req'[r].pc = "select"

\* C5 as stated: a successful add-items reads the most recently created
\* (highest id) active order of its table, and its write changes that order
\* alone, every other order keeping all its fields.
C5_AppendTargetsNewestOnly ==
  [][\A r \in Reqs :
       /\ AddReads(r) => req'[r].existing[1].id = NewestActiveId(req'[r].table_no)
       /\ AddWrites(r) =>
            \A i \in Ids : i # req[r].existing[1].id => orders'[i] = orders[i]]_vars

\* ---- C6
\* C6: when the target row is still as the request read it, the UPDATE of
\* add-items leaves it with the previous items followed by the new ones in
\* order, with special_requests the previous text followed by "; " and the new
\* text when the new text is non-empty and the previous text otherwise, and
\* with status placed; archived, table_no, id and created_at are unchanged.
C6_AppendResult ==
  [][\A r \in Reqs :
       AddWrites(r) =>
         LET id == req[r].existing[1].id
             before == orders[id]
             after == orders'[id]
             text == req[r].special_requests
         IN  before = req[r].existing[1] =>
               /\ JSON_parse(after.items_json)
                    = JSON_parse(before.items_json) \o req[r].items.elems
               /\ after.special_requests =
                    (IF text \in {undefined, ""}
                     THEN before.special_requests
                     ELSE before.special_requests \o "; " \o text)
               /\ after.status = "placed"
               /\ after.archived = before.archived
               /\ after.table_no = before.table_no
               /\ after.id = before.id
               /\ after.created_at = before.created_at]_vars

\* An order placed with item A and text "x", moved on to another status, then
\* appended to with item B and text "y": items A, B, text "x; y", status placed.
C6_Witness ==
  \E r \in Reqs :
    /\ req[r].kind = "add" /\ Answered(r, 200)
    /\ req[r].existing[1].status \in {"preparing", "ready", "billed"}
    /\ LET o == orders[req[r].existing[1].id]
       IN  /\ JSON_parse(o.items_json) = <<"A", "B">>
           /\ o.special_requests = "x; y"
           /\ o.status = "placed"

\* ---- C7
AddWrote(r) ==
  req[r].kind = "add" /\ req[r].pc \in {"select", "done"} /\ req[r].existing # NoRow

\* C7: when two add-items requests have read the same version of an order and
\* both have written (no third one wrote to it), the order's items are the
\* items read followed by the items of one of the two only: the other
\* request's items are lost.
C7_LastWriteWins ==
  \A r1, r2 \in Reqs :
    ( /\ r1 # r2 /\ AddWrote(r1) /\ AddWrote(r2)
      /\ req[r1].existing = req[r2].existing
      /\ \A r3 \in Reqs \ {r1, r2} :
           AddWrote(r3) => req[r3].existing[1].id # req[r1].existing[1].id )
    => LET base == JSON_parse(req[r1].existing[1].items_json)
           now == JSON_parse(orders[req[r1].existing[1].id].items_json)
       IN  now \in {base \o req[r1].items.elems, base \o req[r2].items.elems}

\* Both requests were answered 200 and the order holds the items of one only.
C7_Witness ==
  \E r1, r2 \in Reqs :
    /\ r1 # r2
    /\ req[r1].kind = "add" /\ Answered(r1, 200)
    /\ req[r2].kind = "add" /\ Answered(r2, 200)
    /\ req[r1].existing = req[r2].existing
    /\ req[r1].items.elems = <<"B">> /\ req[r2].items.elems = <<"C">>
    /\ JSON_parse(orders[req[r1].existing[1].id].items_json)
         = JSON_parse(req[r1].existing[1].items_json) \o <<"C">>
    /\ Cardinality(EventsBy(r1)) = 1 /\ Cardinality(EventsBy(r2)) = 1

\* ---- C8
FailsValidation(q) ==
  \/ q.kind = "place" /\ (q.table_no \in {"", undefined} \/ ~q.items.isArray)
  \/ q.kind = "add" /\ (~q.items.isArray \/ q.items.elems = <<>>)
  \/ q.kind = "status" /\ q.status \notin {"placed", "preparing", "ready", "billed", "archived"}

\* C8: a place-order, add-items or set-status request that fails validation is
\* answered 400 at once, changes no order and emits nothing, then or later.
C8_ValidationFailureIsInert ==
  [][\A r \in Reqs :
       /\ (req[r].pc = "idle" /\ req'[r].pc # "idle" /\ FailsValidation(req'[r])) =>
            /\ req'[r].pc = "done" /\ req'[r].res = 400
            /\ orders' = orders /\ events' = events /\ inbox' = inbox
       /\ req[r].res = 400 =>
            /\ req'[r] = req[r]
            /\ \A k \in DOMAIN events' : events'[k].by # r]_vars

\* With an order in the store, an add-items with no items and a set-status
\* with an unknown status were both answered 400.
C8_Witness ==
  /\ orders # <<>>
  /\ orders[1].status = "placed" /\ JSON_parse(orders[1].items_json) = <<"A">>
  /\ \E r \in Reqs : req[r].kind = "add" /\ Answered(r, 400) /\ req[r].table_no = orders[1].table_no
  /\ \E r \in Reqs : req[r].kind = "status" /\ Answered(r, 400) /\ req[r].id = 1

\* ---- C9
EventType(kind) ==
  CASE kind = "place" -> "order:placed"
    [] kind = "add" -> "order:items-added"
    [] kind = "status" -> "order:status-changed"
    [] kind = "bill" -> "order:billed"

\* what request r wrote, as far as its event's payload p must show it
CarriesOwnMutation(r, p) ==
  CASE req[r].kind = "place" ->
         /\ p.id = req[r].lastID /\ p.table_no = req[r].table_no
         /\ p.items = req[r].items.elems
         /\ p.status = "placed" /\ p.archived = 0
    [] req[r].kind = "add" ->
         /\ p.id = req[r].existing[1].id
         /\ p.items = JSON_parse(req[r].existing[1].items_json) \o req[r].items.elems
         /\ p.status = "placed"
    [] req[r].kind = "status" ->
         /\ p.id = req[r].id /\ p.status = req[r].status
    [] req[r].kind = "bill" ->
         /\ p.id = req[r].id /\ p.status = "billed" /\ p.archived = 1

\* C9 as stated: every mutating request answered 200 has emitted exactly one
\* event, of its own type, whose payload is the order as the request's own
\* write left it; and no request has an event before its write and response.
C9_OneEventCarryingOwnMutation ==
  \A r \in Reqs :
    /\ (req[r].kind \in {"place", "add", "status", "bill"} /\ Answered(r, 200)) =>
         /\ Cardinality(EventsBy(r)) = 1
         /\ \A k \in EventsBy(r) :
              /\ events[k].type = EventType(req[r].kind)
              /\ CarriesOwnMutation(r, events[k].payload)
    /\ ~Answered(r, 200) => EventsBy(r) = {}

\* ---- C10
\* C10 as stated: once the handler of a set-status (valid status) or bill
\* request whose id no order has is through, the request was answered 404, no
\* event was emitted for it.
C10_UnknownIdIsNotFound ==
  \A r \in Reqs :
    ( /\ req[r].kind \in {"status", "bill"}
      /\ req[r].pc \notin {"idle", "select"}
      /\ req[r].kind = "status" => req[r].status \in Statuses
      /\ req[r].id \notin Ids )
    => req[r].res = 404 /\ EventsBy(r) = {}

\* ---- C11
\* The step a request in flight is waiting for: the continuation after the
\* store's answer to its pending statement.
PendingStep(r) ==
  \/ PlaceOrderSelect(r)
  \/ AddItemsUpdate(r)
  \/ AddItemsSelect(r)
  \/ SetStatusSelect(r)
  \/ BillSelect(r)

\* C11 as stated: no request blocks for ever: every request that was received
\* and has no response yet has a step to take once the store answers, so that
\* it ends with a response (success or error).
C11_NoRequestWithoutResponse ==
  \A r \in Reqs : req[r].pc \notin {"idle", "done"} => ENABLED PendingStep(r)

\* ---- C12
\* No add-items request has written to order i.
ItemsAsPlaced(i) ==
  \A a \in Reqs : AddWrote(a) => req[a].existing[1].id # i

\* C12: an unfiltered list returns every order written by place-order that is
\* still active and that no add-items has written to since (so also when no
\* request came in between), with an items sequence equal to the sequence the
\* place-order request gave, in the same order, the empty sequence included.
C12_PlacedItemsRoundTrip ==
  [][\A l \in Reqs :
       (ArrivesAs(l, "list") /\ req'[l].status \in {undefined, ""}) =>
         \A p \in Reqs :
           ( /\ req[p].kind = "place" /\ req[p].lastID \in Ids
             /\ orders[req[p].lastID].archived = 0
             /\ ItemsAsPlaced(req[p].lastID) )
           => \E k \in DOMAIN req'[l].body :
                /\ req'[l].body[k].id = req[p].lastID
                /\ req'[l].body[k].items = req[p].items.elems]_vars

\* A list answered right after two place-orders, one with no item and one with
\* item A, returns both with the items as given.
C12_Witness ==
  \E l, p, q \in Reqs :
    /\ req[l].kind = "list" /\ Answered(l, 200) /\ req[l].status = undefined
    /\ req[p].kind = "place" /\ Answered(p, 200) /\ req[p].items.elems = <<>>
    /\ req[q].kind = "place" /\ Answered(q, 200) /\ req[q].items.elems = <<"A">>
    /\ \E j, k \in DOMAIN req[l].body :
         /\ req[l].body[j].id = req[p].lastID /\ req[l].body[j].items = <<>>
         /\ req[l].body[k].id = req[q].lastID /\ req[l].body[k].items = <<"A">>

\* ---- C13
\* C13: the list's response holds exactly the orders with archived = 0, only
\* those whose status equals the filter when a (non-empty) filter is given,
\* each once, in descending created_at; the store, the broadcasts and the
\* sockets are untouched.
C13_ListIsActiveFilteredSorted ==
  [][\A l \in Reqs :
       ArrivesAs(l, "list") =>
         LET rows == req'[l].body
             f == req'[l].status
             given == f \notin {undefined, ""}
         IN  /\ req'[l].pc = "done" /\ req'[l].res = 200
             /\ {rows[k].id : k \in DOMAIN rows}
                  = {i \in Ids : orders[i].archived = 0 /\ (given => orders[i].status = f)}
             /\ \A j, k \in DOMAIN rows : j # k => rows[j].id # rows[k].id
             /\ \A j, k \in DOMAIN rows : j < k => rows[j].created_at >= rows[k].created_at
             /\ \A k \in DOMAIN rows :
                  /\ rows[k].status = orders[rows[k].id].status
                  /\ rows[k].archived = 0
                  /\ rows[k].created_at = orders[rows[k].id].created_at
             /\ orders' = orders /\ events' = events /\ inbox' = inbox]_vars

\* A list filtered on billed, arriving after the bill request that archived
\* the store's billed order, returned no order.
C13_Witness ==
  \E l, b \in Reqs :
    /\ b < l
    /\ req[l].kind = "list" /\ Answered(l, 200) /\ req[l].status = "billed"
    /\ req[b].kind = "bill" /\ req[b].id \in Ids
    /\ orders[req[b].id].status = "billed" /\ orders[req[b].id].archived = 1
    /\ req[l].body = <<>>

\* ---- C14
\* C14: a place-order request that passes validation adds exactly one order:
\* its id is new (no existing order has it), status placed, archived 0, the
\* table and the items of the request, special_requests as given or the empty
\* string when none (or an empty one) was given; every existing order keeps
\* all its fields, also when the table already has an active order.
C14_PlaceOrderAddsOneOrder ==
  [][\A r \in Reqs :
       (ArrivesAs(r, "place") /\ req'[r].pc = "select") =>
         LET n == Len(orders)
             new == orders'[n + 1]
             given == req'[r].special_requests
         IN  /\ Len(orders') = n + 1
             /\ \A i \in Ids : orders'[i] = orders[i]
             /\ new.id = n + 1 /\ req'[r].lastID = new.id
             /\ \A i \in Ids : orders[i].id # new.id
             /\ new.status = "placed" /\ new.archived = 0
             /\ new.table_no = req'[r].table_no
             /\ JSON_parse(new.items_json) = req'[r].items.elems
             /\ new.special_requests = (IF given \in {undefined, ""} THEN "" ELSE given)]_vars

\* A second order placed for a table whose first order is still active, with
\* no special request given: it is stored with the empty string beside the
\* first.
C14_Witness ==
  \E p, q \in Reqs :
    /\ p < q
    /\ req[p].kind = "place" /\ req[p].lastID = 1
    /\ req[q].kind = "place" /\ req[q].lastID = 2
    /\ req[q].special_requests = undefined
    /\ Len(orders) = 2
    /\ orders[1].table_no = orders[2].table_no
    /\ orders[1].archived = 0
    /\ orders[2].special_requests = "" /\ orders[2].status = "placed"

\* ---- C15
\* C15: a refresh:orders request appends one orders:refresh message to the
\* inbox of the socket that sent it and to no other inbox, emits no broadcast,
\* and the message carries every order with archived = 0 at the read, each
\* once with its fields and decoded items, and no other order; refresh:orders
\* and refresh:items both leave every order as it was.
C15_RefreshAnswersSenderOnly ==
  [][\A r \in Reqs :
       /\ ArrivesAs(r, "refresh") =>
            LET socket == req'[r].socket
                m == inbox'[socket][Len(inbox[socket]) + 1]
            IN  /\ Len(inbox'[socket]) = Len(inbox[socket]) + 1
                /\ \A k \in DOMAIN inbox[socket] : inbox'[socket][k] = inbox[socket][k]
                /\ \A o \in Sockets \ {socket} : inbox'[o] = inbox[o]
                /\ events' = events
                /\ orders' = orders
                /\ m.type = "orders:refresh"
                /\ {m.payload[k].id : k \in DOMAIN m.payload}
                     = {i \in Ids : orders[i].archived = 0}
                /\ Len(m.payload) = Cardinality({i \in Ids : orders[i].archived = 0})
                /\ \A k \in DOMAIN m.payload :
                     LET o == orders[m.payload[k].id]
                     IN  /\ m.payload[k].status = o.status
                         /\ m.payload[k].table_no = o.table_no
                         /\ m.payload[k].special_requests = o.special_requests
                         /\ m.payload[k].items = JSON_parse(o.items_json)
       /\ ArrivesAs(r, "refresh-items") =>
            /\ orders' = orders
            /\ events' = events
            /\ \A o \in Sockets \ {req'[r].socket} : inbox'[o] = inbox[o]]_vars

\* One socket has received an orders:refresh message listing the two active
\* orders of the store while the other socket has received nothing.
C15_Witness ==
  \E socket \in Sockets :
    /\ \E k \in DOMAIN inbox[socket] :
         /\ inbox[socket][k].type = "orders:refresh"
         /\ Len(inbox[socket][k].payload) = 2
    /\ \A o \in Sockets \ {socket} : inbox[o] = <<>>
    /\ \E r \in Reqs : req[r].kind = "refresh" /\ req[r].socket = socket /\ req[r].pc = "done"

\* ---- C16
\* C16: a set-status request with any of the five statuses on an order whose
\* archived is 1 is not blocked: the write sets the order's status to the
\* requested one and archived stays 1, so an order with archived = 1 and
\* status placed, preparing or ready is reachable.
C16_ArchivedOrderStillWritable ==
  [][\A r \in Reqs :
       ( /\ ArrivesAs(r, "status") /\ req'[r].status \in Statuses
         /\ req'[r].id \in Ids /\ orders[req'[r].id].archived = 1 )
       => /\ req'[r].pc = "select"
          /\ orders'[req'[r].id].status = req'[r].status
          /\ orders'[req'[r].id].archived = 1]_vars

\* An order archived by an earlier bill request was then the object of a
\* set-status request to placed, preparing or ready, answered 200: it has that
\* status and archived = 1.
C16_Witness ==
  \E b, r \in Reqs :
    /\ b < r
    /\ req[b].kind = "bill" /\ req[b].id \in Ids
    /\ req[r].kind = "status" /\ req[r].id = req[b].id /\ Answered(r, 200)
    /\ req[r].status \in {"placed", "preparing", "ready"}
    /\ orders[req[r].id].status = req[r].status
    /\ orders[req[r].id].archived = 1

\* ---- C17
\* C17 as stated: the write of an add-items request never changes an order
\* that is archived at the moment of the write: every order with archived = 1
\* keeps its items, special_requests and status across the write, in every
\* interleaving with bill and set-status requests.
C17_AddItemsNeverWritesArchived ==
  [][\A r \in Reqs :
       AddWrites(r) =>
         \A i \in Ids :
           orders[i].archived = 1 =>
             /\ orders'[i].items_json = orders[i].items_json
             /\ orders'[i].special_requests = orders[i].special_requests
             /\ orders'[i].status = orders[i].status]_vars

\* ---- C18
\* C18: the write of a set-status or bill request leaves the items,
\* special_requests, table_no, created_at and id of its order as they were and
\* every other order with all its fields; and no step of any request removes
\* an order: every order of the store is still there, under its id, after it.
C18_StatusAndBillFrame ==
  [][/\ \A r \in Reqs :
          ( \/ ArrivesAs(r, "status") /\ req'[r].pc = "select"
            \/ ArrivesAs(r, "bill") )
          => /\ Len(orders') = Len(orders)
             /\ \A i \in Ids :
                  /\ i # req'[r].id => orders'[i] = orders[i]
                  /\ orders'[i].items_json = orders[i].items_json
                  /\ orders'[i].special_requests = orders[i].special_requests
                  /\ orders'[i].table_no = orders[i].table_no
                  /\ orders'[i].created_at = orders[i].created_at
                  /\ orders'[i].id = orders[i].id
     /\ Len(orders') >= Len(orders)
     /\ \A i \in Ids : orders'[i].id = i]_vars

\* With two orders in the store, a bill request on one was answered 200: that
\* order is billed and archived with its items as stored, the other is still
\* placed and active.
C18_Witness ==
  \E b \in Reqs :
    /\ req[b].kind = "bill" /\ Answered(b, 200)
    /\ Len(orders) = 2
    /\ orders[req[b].id].status = "billed" /\ orders[req[b].id].archived = 1
    /\ orders[req[b].id].items_json = JSON_stringify(<<"A">>)
    /\ \E i \in Ids : i # req[b].id /\ orders[i].status = "placed" /\ orders[i].archived = 0

\* ---- C19
\* C19 as stated: in every reachable state, for every table with at least one
\* active order, the add-items selection can return exactly one order, the
\* active order of the table created last (highest id), also when two active
\* orders of the table have the same created_at.
C19_AppendTargetDetermined ==
  \A table_no \in Tables :
    ActiveOfTable(table_no) # {} =>
      SelectLatestActive(table_no) = {NewestActiveId(table_no)}

====
